---- MODULE Spec2Model ----
(***************************************************************************)
(* State-machine model of the TerraCLIM client: the TerraCLIMAuth session  *)
(* (src/src/terraclim/auth.py) and the resource clients that read it.      *)
(* Every method is one action; the remote server and the network are       *)
(* inputs chosen with \E.                                                  *)
(*                                                                         *)
(* Spec            the session and the resource clients                    *)
(* SpecNormalizer  utils.response_to_dataframe applied to one JSON value   *)
(* SpecInterpreter utils.handle_error_response applied to one response     *)
(* SpecWrapper     the entry points of powerbi_wrapper                     *)
(***************************************************************************)
EXTENDS Integers, Sequences, FiniteSets, TLC

VARIABLES
    access_token,   \* TerraCLIMAuth.access_token
    refresh_token,  \* TerraCLIMAuth.refresh_token
    headers,        \* TerraCLIMAuth.headers (a dict: function from header names)
    environ,        \* os.environ as read by os.getenv
    client,         \* the resource client constructed last on the session
    op,             \* the method that ran last
    args,           \* its arguments
    ret,            \* what it returned ("" when it raised)
    raised,         \* the exception it let escape ("" when it returned)
    sent,           \* the HTTP requests it issued, in order
    invoked,        \* the session methods it called, with their results
    resp            \* what the network answered to it

session == <<access_token, refresh_token, headers>>
vars == <<access_token, refresh_token, headers, environ, client,
          op, args, ret, raised, sent, invoked, resp>>

----------------------------------------------------------------------------
(* Bounds *)

\* number of distinct access tokens the server issues
NumTokens == 2

\* longest features array of a FeatureCollection
MaxFeatures == 2

\* deepest nesting of objects a dotted column name is followed through
MaxDepth == 3

----------------------------------------------------------------------------
(* Python values *)

None == "None"

\* bool(v) for the values that occur here: None and "" are falsy
Truthy(v) == v \notin {None, ""}

\* d.get(k)
DictGet(d, k) == IF k \in DOMAIN d THEN d[k] ELSE None

\* variant: d.setdefault(k, v), an existing entry is kept
SetItem_setdefault(d, k, v) ==
    [x \in (DOMAIN d) \cup {k} |-> IF x \in DOMAIN d THEN d[x] ELSE v]

\* d[k] = v
SetItem(d, k, v) == [x \in (DOMAIN d) \cup {k} |-> IF x = k THEN v ELSE d[x]]

EmptyDict == [x \in {} |-> None]

\* os.getenv(k)
getenv(k) == DictGet(environ, k)

AccessNames == <<"AAA", "BBB", "CCC", "DDD">>
AccessTokens == {AccessNames[i] : i \in 1..NumTokens}
RefreshTokens == {"RRR"}

\* variant: the scheme prefix is left out
Bearer_noPrefix(token) == token

\* f'Bearer {token}'
Bearer(token) == "Bearer " \o token

----------------------------------------------------------------------------
(* The network: what requests.post / requests.get can produce *)

Statuses == {200, 304, 401}

\* variant: only server errors count as failures
ok_serverErrorsOnly(status_code) == ~(500 <= status_code /\ status_code < 600)

\* Response.ok: raise_for_status() raises exactly for 400 <= status < 600
ok(status_code) == ~(400 <= status_code /\ status_code < 600)

\* JSON objects the token endpoints answer with: `access` absent, empty or a
\* token; `refresh` absent or a token; or only a `detail` message
TokenDicts ==
    UNION { [S -> {""} \cup AccessTokens \cup RefreshTokens] : S \in SUBSET {"access", "refresh"} }

WellTyped(d) ==
    /\ "access" \in DOMAIN d => d["access"] \in {""} \cup AccessTokens
    /\ "refresh" \in DOMAIN d => d["refresh"] \in RefreshTokens

\* body: text that is not JSON, or a JSON value (an object or an array)
TokenBodies ==
    {[parses |-> FALSE, type |-> "text", data |-> EmptyDict]}
    \cup {[parses |-> TRUE, type |-> "list", data |-> EmptyDict]}
    \cup {[parses |-> TRUE, type |-> "dict", data |-> [k \in {"detail"} |-> "bad credentials"]]}
    \cup {[parses |-> TRUE, type |-> "dict", data |-> d] : d \in {x \in TokenDicts : WellTyped(x)}}

NoResponse == [kind |-> "none", status_code |-> 0, content_type |-> "",
               body |-> [parses |-> FALSE, type |-> "text", data |-> EmptyDict]]

\* requests raised a RequestException (connection error, timeout)
NetworkError == [kind |-> "error", status_code |-> 0, content_type |-> "",
                 body |-> [parses |-> FALSE, type |-> "text", data |-> EmptyDict]]

\* what an error answer carries: no token, or (a misbehaving server) one
\* fixed pair of tokens
ErrorBodies ==
    {b \in TokenBodies : b.type # "dict" \/ DOMAIN b.data \subseteq {"detail"}}
    \cup {[parses |-> TRUE, type |-> "dict",
           data |-> [k \in {"access", "refresh"} |-> IF k = "access" THEN "AAA" ELSE "RRR"]]}

TokenOutcomes ==
    {NetworkError}
    \cup {[kind |-> "response", status_code |-> 200, content_type |-> "application/json", body |-> b]
            : b \in TokenBodies}
    \cup {[kind |-> "response", status_code |-> s, content_type |-> "application/json", body |-> b]
            : s \in Statuses \ {200}, b \in ErrorBodies}

\* bodies of the resource endpoints: text that is not JSON, an empty array,
\* a bare string (kept under `value`), an object, an object with `detail`,
\* an object carrying the serialized AttributeError of the server
AttributeErrorKey == "<class 'AttributeError'>: 'user'"

ResourceBodies ==
    {[parses |-> FALSE, type |-> "text", data |-> EmptyDict]}
    \cup {[parses |-> TRUE, type |-> "list", data |-> EmptyDict]}
    \cup {[parses |-> TRUE, type |-> "str", data |-> [k \in {"value"} |-> "maintenance"]]}
    \cup {[parses |-> TRUE, type |-> "dict", data |-> [k \in {key} |-> "x"]]
            : key \in {"id", "detail", AttributeErrorKey}}

\* a GeoJSON FeatureCollection; its features array is kept under a name
FeatureCollectionBody ==
    [parses |-> TRUE, type |-> "dict",
     data |-> [k \in {"type", "features"} |->
                 IF k = "type" THEN "FeatureCollection" ELSE "portions"]]

ResourceOutcomes ==
    {NetworkError}
    \cup {[kind |-> "response", status_code |-> 200, content_type |-> "application/json",
           body |-> FeatureCollectionBody]}
    \cup {[kind |-> "response", status_code |-> s, content_type |-> "application/json", body |-> b]
            : s \in Statuses, b \in ResourceBodies}
    \cup {[kind |-> "response", status_code |-> s, content_type |-> "text/html",
           body |-> [parses |-> FALSE, type |-> "text", data |-> EmptyDict]]
            : s \in Statuses}

Request(method, url, hdrs, json) ==
    [method |-> method, url |-> url, headers |-> hdrs, json |-> json]

----------------------------------------------------------------------------
(* TerraCLIMAuth *)

\* variant: the header map is created with an (empty) Authorization entry
InitHeaders_withAuthorization ==
    [k \in {"Content-Type", "Accept", "Authorization"} |->
        IF k = "Authorization" THEN "Bearer " ELSE "application/json"]

\* the header map of a new TerraCLIMAuth
InitHeaders == [k \in {"Content-Type", "Accept"} |-> "application/json"]

Outcome(at, rt, h, r, e, s) ==
    [access_token |-> at, refresh_token |-> rt, headers |-> h,
     ret |-> r, raised |-> e, sent |-> s]

\* variant: the token check of line 71 is missing, any JSON object logs in
login_noAccessCheck(at, rt, h, username, password, net) ==
    LET u == IF Truthy(username) THEN username ELSE getenv("TERRACLIM_USERNAME")
        p == IF Truthy(password) THEN password ELSE getenv("TERRACLIM_PASSWORD")
        post == Request("POST", "/api/token/", h,
                        [k \in {"username", "password"} |-> IF k = "username" THEN u ELSE p])
        a == DictGet(net.body.data, "access")
        r == DictGet(net.body.data, "refresh")
    IN  IF ~Truthy(u) \/ ~Truthy(p)
          THEN Outcome(at, rt, h, "", "ValueError", <<>>)
        ELSE IF net.kind = "error" \/ ~net.body.parses \/ ~ok(net.status_code)
          THEN Outcome(at, rt, h, "False", "", <<post>>)
        ELSE IF net.body.type = "dict"
          THEN Outcome(a, r, SetItem(h, "Authorization", Bearer(a)), "True", "", <<post>>)
        ELSE Outcome(at, rt, h, "False", "", <<post>>)

\* variant: the request is sent before the credentials are checked
login_postsFirst(at, rt, h, username, password, net) ==
    LET u == IF Truthy(username) THEN username ELSE getenv("TERRACLIM_USERNAME")
        p == IF Truthy(password) THEN password ELSE getenv("TERRACLIM_PASSWORD")
        post == Request("POST", "/api/token/", h,
                        [k \in {"username", "password"} |-> IF k = "username" THEN u ELSE p])
        a == DictGet(net.body.data, "access")
        r == DictGet(net.body.data, "refresh")
    IN  IF ~Truthy(u) \/ ~Truthy(p)
          THEN Outcome(at, rt, h, "", "ValueError", <<post>>)
        ELSE IF net.kind = "error" \/ ~net.body.parses \/ ~ok(net.status_code)
          THEN Outcome(at, rt, h, "False", "", <<post>>)
        ELSE IF net.body.type = "dict"
          THEN IF Truthy(a)
                 THEN Outcome(a, r, SetItem(h, "Authorization", Bearer(a)), "True", "", <<post>>)
                 ELSE Outcome(a, r, h, "False", "", <<post>>)
        ELSE Outcome(at, rt, h, "False", "", <<post>>)

\* TerraCLIMAuth.login on the session (at, rt, h)
login(at, rt, h, username, password, net) ==
    LET u == IF Truthy(username) THEN username ELSE getenv("TERRACLIM_USERNAME")
        p == IF Truthy(password) THEN password ELSE getenv("TERRACLIM_PASSWORD")
        post == Request("POST", "/api/token/", h,
                        [k \in {"username", "password"} |-> IF k = "username" THEN u ELSE p])
        data == net.body.data
        a == DictGet(data, "access")
        r == DictGet(data, "refresh")
    IN  IF ~Truthy(u) \/ ~Truthy(p)
          THEN Outcome(at, rt, h, "", "ValueError", <<>>)
        ELSE IF net.kind = "error"
          THEN Outcome(at, rt, h, "False", "", <<post>>)
        ELSE IF ~net.body.parses
          THEN Outcome(at, rt, h, "False", "", <<post>>)
        ELSE IF ~ok(net.status_code)
          THEN Outcome(at, rt, h, "False", "", <<post>>)
        ELSE IF net.body.type = "dict"
          THEN IF Truthy(a)
                 THEN Outcome(a, r, SetItem(h, "Authorization", Bearer(a)), "True", "", <<post>>)
                 ELSE Outcome(a, r, h, "False", "", <<post>>)
        ELSE Outcome(at, rt, h, "False", "", <<post>>)

\* variant: the guard of line 109 is missing, the request is sent anyway
refresh_tokens_noGuard(at, rt, h, net, jsonIsReqExc) ==
    LET post == Request("POST", "/api/token/refresh/", InitHeaders,
                        [k \in {"refresh"} |-> rt])
        a == DictGet(net.body.data, "access")
        r == DictGet(net.body.data, "refresh")
    IN  IF net.kind = "error" \/ ~ok(net.status_code)
          THEN Outcome(at, rt, h, "False", "", <<post>>)
        ELSE IF ~net.body.parses
          THEN IF jsonIsReqExc
                 THEN Outcome(at, rt, h, "False", "", <<post>>)
                 ELSE Outcome(at, rt, h, "", "ValueError", <<post>>)
        ELSE IF net.body.type # "dict"
          THEN Outcome(at, rt, h, "", "AttributeError", <<post>>)
        ELSE IF Truthy(a)
          THEN Outcome(a, r, SetItem(h, "Authorization", Bearer(a)), "True", "", <<post>>)
        ELSE Outcome(a, r, h, "False", "", <<post>>)

\* variant: the except clause of line 137 catches HTTPError only, a
\* connection error escapes
refresh_tokens_uncaught(at, rt, h, net, jsonIsReqExc) ==
    LET post == Request("POST", "/api/token/refresh/", InitHeaders,
                        [k \in {"refresh"} |-> rt])
        a == DictGet(net.body.data, "access")
        r == DictGet(net.body.data, "refresh")
    IN  IF ~Truthy(rt)
          THEN Outcome(at, rt, h, "False", "", <<>>)
        ELSE IF net.kind = "error"
          THEN Outcome(at, rt, h, "", "ConnectionError", <<post>>)
        ELSE IF ~ok(net.status_code)
          THEN Outcome(at, rt, h, "False", "", <<post>>)
        ELSE IF ~net.body.parses
          THEN IF jsonIsReqExc
                 THEN Outcome(at, rt, h, "False", "", <<post>>)
                 ELSE Outcome(at, rt, h, "", "ValueError", <<post>>)
        ELSE IF net.body.type # "dict"
          THEN Outcome(at, rt, h, "", "AttributeError", <<post>>)
        ELSE IF Truthy(a)
          THEN Outcome(a, r, SetItem(h, "Authorization", Bearer(a)), "True", "", <<post>>)
        ELSE Outcome(a, r, h, "False", "", <<post>>)

\* TerraCLIMAuth.refresh_tokens on the session (at, rt, h).  jsonIsReqExc:
\* whether the installed requests raises a RequestException subclass from
\* Response.json() (2.27 and later) or a plain ValueError (before).
refresh_tokens(at, rt, h, net, jsonIsReqExc) ==
    LET post == Request("POST", "/api/token/refresh/", InitHeaders,
                        [k \in {"refresh"} |-> rt])
        tokens == net.body.data
        a == DictGet(tokens, "access")
        r == DictGet(tokens, "refresh")
    IN  IF ~Truthy(rt)
          THEN Outcome(at, rt, h, "False", "", <<>>)
        ELSE IF net.kind = "error"
          THEN Outcome(at, rt, h, "False", "", <<post>>)
        ELSE IF ~ok(net.status_code)
          THEN Outcome(at, rt, h, "False", "", <<post>>)
        ELSE IF ~net.body.parses
          THEN IF jsonIsReqExc
                 THEN Outcome(at, rt, h, "False", "", <<post>>)
                 ELSE Outcome(at, rt, h, "", "ValueError", <<post>>)
        ELSE IF net.body.type # "dict"
          THEN Outcome(at, rt, h, "", "AttributeError", <<post>>)
        ELSE IF Truthy(a)
          THEN Outcome(a, r, SetItem(h, "Authorization", Bearer(a)), "True", "", <<post>>)
        ELSE Outcome(a, r, h, "False", "", <<post>>)

\* TerraCLIMAuth.get_headers: the header map itself
get_headers == headers

\* variant: every session counts as authenticated
is_authenticated_always(at) == TRUE

\* TerraCLIMAuth.is_authenticated on a session whose access token is at
is_authenticated(at) == Truthy(at)

----------------------------------------------------------------------------
(* utils.handle_error_response: (success, error message) *)

\* s.startswith(prefix)
startswith(s, prefix) ==
    Len(s) >= Len(prefix) /\ SubSeq(s, 1, Len(prefix)) = prefix

\* sub in s
Contains(s, sub) ==
    \E i \in 1..(Len(s) - Len(sub) + 1) : SubSeq(s, i, i + Len(sub) - 1) = sub

\* k.startswith("<class 'AttributeError'>")
IsAttributeErrorKey(k) == startswith(k, "<class 'AttributeError'>")

\* the entries of a dict of strings as str() prints them, in the order keys
RECURSIVE str_entries(_, _)
str_entries(d, keys) ==
    IF keys = <<>> THEN ""
    ELSE "'" \o Head(keys) \o "': '" \o d[Head(keys)] \o "'"
         \o (IF Len(keys) > 1 THEN ", " ELSE "") \o str_entries(d, Tail(keys))

\* the keys of a dict as a sequence (the bodies here have at most one entry
\* besides the serialized AttributeError, so the order is immaterial)
RECURSIVE KeySeq(_)
KeySeq(S) ==
    IF S = {} THEN <<>>
    ELSE LET k == CHOOSE x \in S : TRUE IN <<k>> \o KeySeq(S \ {k})

\* str(data) for the parsed body: a string is itself, a list and a dict
\* print as their literals
str(body) ==
    IF body.type = "str" THEN body.data["value"]
    ELSE IF body.type = "list" THEN "[]"
    ELSE "{" \o str_entries(body.data, KeySeq(DOMAIN body.data)) \o "}"

\* variant: the status is looked at before the content type
handle_error_response_statusFirst(response) ==
    IF ok(response.status_code) /\ response.body.parses
         /\ response.body.type \in {"dict", "list"}
      THEN [success |-> TRUE, error_msg |-> None]
      ELSE [success |-> FALSE, error_msg |-> "Received HTML response instead of JSON"]

\* variant: an error answer always reports the stringified body
handle_error_response_noDetail(response) ==
    IF Contains(response.content_type, "text/html")
      THEN [success |-> FALSE, error_msg |-> "Received HTML response instead of JSON"]
    ELSE IF ~response.body.parses
      THEN [success |-> FALSE, error_msg |-> "Invalid JSON response"]
    ELSE IF response.body.type = "dict"
              /\ \E k \in DOMAIN response.body.data : IsAttributeErrorKey(k)
      THEN [success |-> FALSE, error_msg |-> "Authentication service temporarily unavailable"]
    ELSE IF ok(response.status_code)
      THEN IF response.body.type \in {"dict", "list"}
             THEN [success |-> TRUE, error_msg |-> None]
             ELSE [success |-> FALSE, error_msg |-> "Invalid response format"]
    ELSE [success |-> FALSE, error_msg |-> str(response.body)]

\* variant: the serialized AttributeError is not looked for
handle_error_response_noSignature(response) ==
    IF Contains(response.content_type, "text/html")
      THEN [success |-> FALSE, error_msg |-> "Received HTML response instead of JSON"]
    ELSE IF ~response.body.parses
      THEN [success |-> FALSE, error_msg |-> "Invalid JSON response"]
    ELSE IF ok(response.status_code)
      THEN IF response.body.type \in {"dict", "list"}
             THEN [success |-> TRUE, error_msg |-> None]
             ELSE [success |-> FALSE, error_msg |-> "Invalid response format"]
    ELSE IF response.body.type = "dict" /\ "detail" \in DOMAIN response.body.data
      THEN [success |-> FALSE, error_msg |-> response.body.data["detail"]]
    ELSE [success |-> FALSE, error_msg |-> str(response.body)]

handle_error_response(response) ==
    LET data == response.body.data
    IN  IF Contains(response.content_type, "text/html")
          THEN [success |-> FALSE, error_msg |-> "Received HTML response instead of JSON"]
        ELSE IF ~response.body.parses
          THEN [success |-> FALSE, error_msg |-> "Invalid JSON response"]
        ELSE IF response.body.type = "dict" /\ \E k \in DOMAIN data : IsAttributeErrorKey(k)
          THEN [success |-> FALSE, error_msg |-> "Authentication service temporarily unavailable"]
        ELSE IF ok(response.status_code)
          THEN IF response.body.type \in {"dict", "list"}
                 THEN [success |-> TRUE, error_msg |-> None]
                 ELSE [success |-> FALSE, error_msg |-> "Invalid response format"]
        ELSE IF response.body.type = "dict" /\ "detail" \in DOMAIN data
          THEN [success |-> FALSE, error_msg |-> data["detail"]]
        ELSE [success |-> FALSE, error_msg |-> str(response.body)]

----------------------------------------------------------------------------
(* State machine *)

\* no resource client has been constructed yet
NoClient == [cls |-> "none", shared |-> FALSE]

\* the resource clients: terraclim.fields.Fields and
\* terraclim.farm_portions.FarmPortions
ClientClasses == {"Fields", "FarmPortions"}

FieldsMethods == {"get_fields", "get_field", "get_field_statistics"}

Call(method, result) == [method |-> method, ret |-> result]

Usernames == {None, "", "u"}
Passwords == {None, "p"}
Environments ==
    UNION { [S -> {"envuser"}] : S \in SUBSET {"TERRACLIM_USERNAME", "TERRACLIM_PASSWORD"} }

Init ==
    /\ access_token = None
    /\ refresh_token = None
    /\ headers = InitHeaders
    /\ environ \in Environments
    /\ client = NoClient
    /\ op = "__init__"
    /\ args = EmptyDict
    /\ ret = "None"
    /\ raised = ""
    /\ sent = <<>>
    /\ invoked = <<>>
    /\ resp = NoResponse

\* both credentials come from the arguments or the environment
HasCredentials(username, password) ==
    /\ Truthy(username) \/ Truthy(getenv("TERRACLIM_USERNAME"))
    /\ Truthy(password) \/ Truthy(getenv("TERRACLIM_PASSWORD"))

Apply(o) ==
    /\ access_token' = o.access_token
    /\ refresh_token' = o.refresh_token
    /\ headers' = o.headers
    /\ ret' = o.ret
    /\ raised' = o.raised
    /\ sent' = o.sent

Login ==
    \E username \in Usernames, password \in Passwords :
      \E net \in IF HasCredentials(username, password) THEN TokenOutcomes ELSE {NetworkError} :
        \E o \in {login(access_token, refresh_token, headers, username, password, net)} :
            /\ Apply(o)
            /\ op' = "login"
            /\ args' = [username |-> username, password |-> password]
            /\ invoked' = <<>>
            /\ resp' = IF o.sent = <<>> THEN NoResponse ELSE net
            /\ UNCHANGED <<environ, client>>

RefreshTokensCall ==
    \E net \in TokenOutcomes :
      \E jsonIsReqExc \in IF net.kind = "response" /\ ~net.body.parses THEN BOOLEAN ELSE {TRUE} :
        \E o \in {refresh_tokens(access_token, refresh_token, headers, net, jsonIsReqExc)} :
            /\ Apply(o)
            /\ op' = "refresh_tokens"
            /\ args' = EmptyDict
            /\ invoked' = <<>>
            /\ resp' = IF o.sent = <<>> THEN NoResponse ELSE net
            /\ UNCHANGED <<environ, client>>

\* variant: get_headers rebuilds the Authorization entry from the token
GetHeaders_rebuilds ==
    /\ op' = "get_headers"
    /\ args' = EmptyDict
    /\ ret' = "headers"
    /\ raised' = ""
    /\ sent' = <<>>
    /\ invoked' = <<>>
    /\ resp' = NoResponse
    /\ headers' = IF Truthy(access_token)
                    THEN SetItem(headers, "Authorization", Bearer(access_token))
                    ELSE [k \in (DOMAIN headers) \ {"Authorization"} |-> headers[k]]
    /\ UNCHANGED <<access_token, refresh_token, environ, client>>

\* TerraCLIMAuth.get_headers called by the program
GetHeaders ==
    /\ op' = "get_headers"
    /\ args' = EmptyDict
    /\ ret' = "headers"
    /\ raised' = ""
    /\ sent' = <<>>
    /\ invoked' = <<>>
    /\ resp' = NoResponse
    /\ UNCHANGED <<access_token, refresh_token, headers, environ, client>>

IsAuthenticated ==
    /\ op' = "is_authenticated"
    /\ args' = EmptyDict
    /\ ret' = IF is_authenticated(access_token) THEN "True" ELSE "False"
    /\ raised' = ""
    /\ sent' = <<>>
    /\ invoked' = <<>>
    /\ resp' = NoResponse
    /\ UNCHANGED <<access_token, refresh_token, headers, environ, client>>

\* Fields.__init__ / FarmPortions.__init__.  given: auth_client is the session
\* (TRUE) or is omitted, so that a new TerraCLIMAuth() is used (FALSE).
Construct ==
    \E cls \in ClientClasses, given \in BOOLEAN :
      \E net \in IF cls = "FarmPortions" /\ ~(given /\ is_authenticated(access_token))
                    /\ Truthy(getenv("TERRACLIM_USERNAME")) /\ Truthy(getenv("TERRACLIM_PASSWORD"))
                  THEN TokenOutcomes ELSE {NetworkError} :
        LET at == IF given THEN access_token ELSE None
            rt == IF given THEN refresh_token ELSE None
            h  == IF given THEN headers ELSE InitHeaders
        IN  \E o \in {login(at, rt, h, None, None, net)} :
            /\ op' = cls
            /\ args' = [auth_client |-> IF given THEN "session" ELSE None]
            /\ UNCHANGED environ
            /\ IF is_authenticated(at)
                 THEN /\ client' = [cls |-> cls, shared |-> TRUE]
                      /\ ret' = "client"
                      /\ raised' = ""
                      /\ sent' = <<>>
                      /\ invoked' = <<Call("is_authenticated", "True")>>
                      /\ resp' = NoResponse
                      /\ UNCHANGED <<access_token, refresh_token, headers>>
               ELSE IF cls = "FarmPortions"
                 THEN /\ client' = IF o.ret = "True" /\ given THEN [cls |-> cls, shared |-> TRUE] ELSE client
                      /\ ret' = IF o.ret = "True" THEN "client" ELSE ""
                      /\ raised' = IF o.ret = "True" THEN "" ELSE "ValueError"
                      /\ sent' = o.sent
                      /\ invoked' = <<Call("is_authenticated", "False"), Call("login", o.ret)>>
                      /\ resp' = IF o.sent = <<>> THEN NoResponse ELSE net
                      /\ access_token' = IF given THEN o.access_token ELSE access_token
                      /\ refresh_token' = IF given THEN o.refresh_token ELSE refresh_token
                      /\ headers' = IF given THEN o.headers ELSE headers
               ELSE   /\ client' = client
                      /\ ret' = ""
                      /\ raised' = "ValueError"
                      /\ sent' = <<>>
                      /\ invoked' = <<Call("is_authenticated", "False")>>
                      /\ resp' = NoResponse
                      /\ UNCHANGED <<access_token, refresh_token, headers>>

\* variant: on a 401 the client refreshes the tokens and repeats the GET
Get_retries ==
    /\ client.cls = "Fields"
    /\ client.shared
    /\ \E method \in FieldsMethods, net \in ResourceOutcomes, again \in TokenOutcomes :
        LET get == Request("GET", "/api/v0/fields/", get_headers, EmptyDict)
            retry == net.kind = "response" /\ net.status_code = 401
        IN  \E o \in {IF retry THEN refresh_tokens(access_token, refresh_token, headers, again, TRUE)
                                 ELSE Outcome(access_token, refresh_token, headers, "", "", <<>>)} :
            /\ op' = method
            /\ args' = EmptyDict
            /\ sent' = IF retry THEN <<get>> \o o.sent
                                 \o <<Request("GET", "/api/v0/fields/", o.headers, EmptyDict)>>
                       ELSE <<get>>
            /\ invoked' = IF retry
                            THEN <<Call("get_headers", "headers"), Call("refresh_tokens", o.ret)>>
                            ELSE <<Call("get_headers", "headers")>>
            /\ resp' = net
            /\ raised' = ""
            /\ ret' = IF net.kind = "error" THEN "None"
                      ELSE IF ~handle_error_response(net).success THEN "None"
                      ELSE "DataFrame"
            /\ access_token' = o.access_token
            /\ refresh_token' = o.refresh_token
            /\ headers' = o.headers
            /\ UNCHANGED <<environ, client>>

\* Fields.get_fields, Fields.get_field, Fields.get_field_statistics on a
\* client that holds the session
Get ==
    /\ client.cls = "Fields"
    /\ client.shared
    /\ \E method \in FieldsMethods, net \in ResourceOutcomes :
        /\ op' = method
        /\ args' = EmptyDict
        /\ sent' = <<Request("GET", "/api/v0/fields/", get_headers, EmptyDict)>>
        /\ invoked' = <<Call("get_headers", "headers")>>
        /\ resp' = net
        /\ raised' = ""
        /\ ret' = IF net.kind = "error" THEN "None"
                  ELSE IF ~handle_error_response(net).success THEN "None"
                  ELSE "DataFrame"
        /\ UNCHANGED <<access_token, refresh_token, headers, environ, client>>

\* the extent argument: missing or empty, three coordinates, four
Extents == {<<>>, <<1, 2, 3>>, <<1, 2, 3, 4>>}

\* FarmPortions._build_url accepts the extent
ValidExtent(extent) == extent # <<>> /\ Len(extent) = 4

\* isinstance(data, dict) and data.get('type') == 'FeatureCollection'
IsFeatureCollectionBody(body) ==
    body.type = "dict" /\ DictGet(body.data, "type") = "FeatureCollection"

\* variant: a failed request is reported by raising
GetFarmPortions_raisesOnFailure ==
    /\ client.cls = "FarmPortions"
    /\ client.shared
    /\ \E extent \in Extents :
        \E net \in IF ValidExtent(extent) THEN ResourceOutcomes ELSE {NetworkError} :
          LET failed == net.kind = "error" \/ ~handle_error_response(net).success
          IN  /\ op' = "get_farm_portions"
              /\ args' = [extent |-> extent]
              /\ sent' = IF ValidExtent(extent)
                           THEN <<Request("GET", "/api/v0/farms/portions/", get_headers, EmptyDict)>>
                           ELSE <<>>
              /\ invoked' = IF ValidExtent(extent) THEN <<Call("get_headers", "headers")>> ELSE <<>>
              /\ resp' = IF ValidExtent(extent) THEN net ELSE NoResponse
              /\ raised' = IF ~ValidExtent(extent) THEN "ValueError"
                            ELSE IF failed THEN "APIError" ELSE ""
              /\ ret' = IF ~ValidExtent(extent) \/ failed THEN ""
                         ELSE IF ~IsFeatureCollectionBody(net.body) THEN "None"
                         ELSE "DataFrame"
              /\ UNCHANGED <<access_token, refresh_token, headers, environ, client>>

\* FarmPortions.get_farm_portions(extent) on a client that holds the session
GetFarmPortions ==
    /\ client.cls = "FarmPortions"
    /\ client.shared
    /\ \E extent \in Extents :
        \E net \in IF ValidExtent(extent) THEN ResourceOutcomes ELSE {NetworkError} :
          /\ op' = "get_farm_portions"
          /\ args' = [extent |-> extent]
          /\ UNCHANGED <<access_token, refresh_token, headers, environ, client>>
          /\ IF ~ValidExtent(extent)
               THEN /\ raised' = "ValueError"
                    /\ ret' = ""
                    /\ sent' = <<>>
                    /\ invoked' = <<>>
                    /\ resp' = NoResponse
               ELSE /\ raised' = ""
                    /\ sent' = <<Request("GET", "/api/v0/farms/portions/", get_headers, EmptyDict)>>
                    /\ invoked' = <<Call("get_headers", "headers")>>
                    /\ resp' = net
                    /\ ret' = IF net.kind = "error" THEN "None"
                               ELSE IF ~handle_error_response(net).success THEN "None"
                               ELSE IF ~IsFeatureCollectionBody(net.body) THEN "None"
                               ELSE "DataFrame"

Next ==
    \/ Login
    \/ RefreshTokensCall
    \/ GetHeaders
    \/ IsAuthenticated
    \/ Construct
    \/ Get
    \/ GetFarmPortions

Spec == Init /\ [][Next]_vars

----------------------------------------------------------------------------
(* Properties of the session *)

HasAuthorization == "Authorization" \in DOMAIN get_headers

\* login or refresh_tokens has just returned true on the session
ReturnedTrue ==
    \/ op \in {"login", "refresh_tokens"} /\ ret = "True"
    \/ /\ op \in ClientClasses
       /\ args["auth_client"] = "session"
       /\ \E i \in DOMAIN invoked : invoked[i] = Call("login", "True")

\* C1: a session created empty has no Authorization entry in get_headers()
\* in any state before a login or refresh_tokens call has returned true (the
\* entry appears only in a step in which such a call returns true), and it
\* has the entry right after every such call.
C1_AuthorizationOnlyAfterSuccess ==
    /\ ~HasAuthorization
    /\ [][ /\ (~HasAuthorization /\ HasAuthorization') => ReturnedTrue'
           /\ ReturnedTrue' => HasAuthorization' ]_vars

C1_Witness ==
    /\ op = "login" /\ ret = "True"
    /\ HasAuthorization

\* the token endpoint answered the last login with a JSON object
LoginAnsweredObject ==
    /\ op = "login"
    /\ resp.kind = "response"
    /\ resp.body.parses
    /\ resp.body.type = "dict"

Is2xx(status_code) == 200 <= status_code /\ status_code < 300

LoginStores(A, R) ==
    /\ ret = "True"
    /\ access_token \notin {None, ""}
    /\ access_token = A
    /\ refresh_token = R
    /\ HasAuthorization
    /\ get_headers["Authorization"] = "Bearer " \o A

\* C2 as stated: a login with credentials answered with a success status and
\* a JSON object holding access = A and refresh = R returns true, the session
\* is authenticated, holds A and R, and sends "Bearer " + A.
C2_Original ==
    ( /\ LoginAnsweredObject
      /\ Is2xx(resp.status_code)
      /\ {"access", "refresh"} \subseteq DOMAIN resp.body.data )
    => LoginStores(resp.body.data["access"], resp.body.data["refresh"])

\* C2 amended: the same, for an object whose access value A is not empty.
C2_LoginStoresTokens ==
    ( /\ LoginAnsweredObject
      /\ Is2xx(resp.status_code)
      /\ {"access", "refresh"} \subseteq DOMAIN resp.body.data
      /\ resp.body.data["access"] # "" )
    => LoginStores(resp.body.data["access"], resp.body.data["refresh"])

C2_Witness ==
    /\ LoginAnsweredObject
    /\ resp.status_code = 200
    /\ args["username"] = "u" /\ args["password"] = "p"
    /\ resp.body.data = [k \in {"access", "refresh"} |-> IF k = "access" THEN "AAA" ELSE "RRR"]
    /\ get_headers["Authorization"] = "Bearer AAA"

\* neither the argument nor the environment supplies the value
Missing(arg, name) == arg \in {None, ""} /\ name \notin DOMAIN environ

\* C3: a login whose username or password is supplied neither by the
\* argument nor by the environment raises ValueError, and no HTTP request
\* has been issued.
C3_MissingCredentialsRaise ==
    ( /\ op = "login"
      /\ \/ Missing(args["username"], "TERRACLIM_USERNAME")
         \/ Missing(args["password"], "TERRACLIM_PASSWORD") )
    => (raised = "ValueError" /\ ret = "" /\ sent = <<>>)

C3_Witness ==
    /\ op = "login"
    /\ args["username"] = "u" /\ args["password"] = None
    /\ "TERRACLIM_PASSWORD" \notin DOMAIN environ
    /\ raised = "ValueError"
    /\ sent = <<>>

IsErrorStatus(status_code) == 400 <= status_code /\ status_code < 600

\* C4 as stated: login returns false, without raising, whenever the answer
\* has a non-2xx status or a body that is not JSON.
C4_Original ==
    ( /\ op = "login"
      /\ resp.kind = "response"
      /\ ~Is2xx(resp.status_code) \/ ~resp.body.parses )
    => (ret = "False" /\ raised = "")

\* C4 amended: login returns false, without raising, whenever the answer has
\* a status from 400 to 599 or a body that is not JSON.
C4_LoginFalseOnErrorStatus ==
    ( /\ op = "login"
      /\ resp.kind = "response"
      /\ IsErrorStatus(resp.status_code) \/ ~resp.body.parses )
    => (ret = "False" /\ raised = "")

C4_Witness ==
    /\ op = "login"
    /\ resp.kind = "response"
    /\ resp.status_code = 401
    /\ resp.body.parses
    /\ "access" \in DOMAIN resp.body.data
    /\ ret = "False"

\* C5: login returns false whenever the answer has a success status and a
\* JSON body that is not an object or is an object without `access`.
C5_LoginFalseWithoutAccess ==
    ( /\ op = "login"
      /\ resp.kind = "response"
      /\ ~IsErrorStatus(resp.status_code)
      /\ resp.body.parses
      /\ resp.body.type # "dict" \/ "access" \notin DOMAIN resp.body.data )
    => ret = "False"

C5_Witness ==
    /\ LoginAnsweredObject
    /\ resp.status_code = 200
    /\ DOMAIN resp.body.data = {"refresh"}
    /\ ret = "False"

\* C6: refresh_tokens on a session without a refresh token returns false
\* without issuing an HTTP request and without changing the session.
C6_RefreshWithoutToken ==
    [][ (op' = "refresh_tokens" /\ refresh_token \in {None, ""})
        => (ret' = "False" /\ raised' = "" /\ sent' = <<>> /\ UNCHANGED session) ]_vars

C6_Witness ==
    /\ op = "refresh_tokens"
    /\ access_token \in AccessTokens
    /\ refresh_token = None
    /\ ret = "False"
    /\ sent = <<>>

\* the refresh request went out and failed
RefreshFailed(failed) ==
    /\ op = "refresh_tokens"
    /\ Len(sent) = 1
    /\ failed

\* C7 as stated: refresh_tokens with a refresh token held returns false and
\* does not raise when the request fails in the network or is answered with
\* a non-success status; login does not let a network failure escape.
C7_Original ==
    /\ RefreshFailed(resp.kind = "error" \/ ~Is2xx(resp.status_code))
        => (ret = "False" /\ raised = "")
    /\ (op = "login" /\ resp.kind = "error") => (ret = "False" /\ raised = "")

\* C7 amended: the same, for an answer with a status from 400 to 599.
C7_FailuresReturnFalse ==
    /\ RefreshFailed(resp.kind = "error" \/ IsErrorStatus(resp.status_code))
        => (ret = "False" /\ raised = "")
    /\ (op = "login" /\ resp.kind = "error") => (ret = "False" /\ raised = "")

C7_Witness ==
    /\ op = "refresh_tokens"
    /\ resp.kind = "error"
    /\ Len(sent) = 1
    /\ sent[1].json["refresh"] = "RRR"
    /\ ret = "False"

\* C8: when refresh_tokens returns true the session holds the `access`
\* value of the refresh answer and sends "Bearer " + that value.
C8_RefreshReplacesToken ==
    (op = "refresh_tokens" /\ ret = "True")
    => /\ "access" \in DOMAIN resp.body.data
       /\ access_token = resp.body.data["access"]
       /\ HasAuthorization
       /\ get_headers["Authorization"] = "Bearer " \o resp.body.data["access"]

C8_Witness ==
    /\ op = "refresh_tokens" /\ ret = "True"
    /\ access_token = "BBB"
    /\ get_headers["Authorization"] = "Bearer BBB"

\* C9: a call of login or refresh_tokens issues at most one HTTP request; a
\* get_* call of a resource client issues at most one request, a GET, and
\* calls neither login nor refresh_tokens, whatever the answer.
C9_NoRetryNoRelogin ==
    /\ op \in {"login", "refresh_tokens"} => Len(sent) <= 1
    /\ op \in FieldsMethods =>
        /\ Len(sent) <= 1
        /\ \A i \in DOMAIN sent : sent[i].method = "GET"
        /\ \A i \in DOMAIN invoked : invoked[i].method \notin {"login", "refresh_tokens"}

C9_Witness ==
    /\ op \in FieldsMethods
    /\ resp.kind = "response"
    /\ resp.status_code = 401
    /\ Len(sent) = 1
    /\ ret = "None"

\* C10: get_headers, is_authenticated, the construction of a resource client
\* on an authenticated session and every get_* call leave the access token,
\* the refresh token and the header map unchanged.
C10_ReadersLeaveSession ==
    [][ ( \/ op' \in {"get_headers", "is_authenticated"}
          \/ op' \in FieldsMethods
          \/ op' \in ClientClasses /\ args'["auth_client"] = "session"
                /\ access_token \notin {None, ""} )
        => UNCHANGED session ]_vars

C10_Witness ==
    /\ op = "FarmPortions"
    /\ args["auth_client"] = "session"
    /\ ret = "client"
    /\ invoked = <<Call("is_authenticated", "True")>>
    /\ sent = <<>>
    /\ client = [cls |-> "FarmPortions", shared |-> TRUE]
    /\ access_token \in AccessTokens

----------------------------------------------------------------------------
(* JSON values, as json.loads / Response.json() build them *)

JNull == [t |-> "null", null |-> TRUE]
JBool(b) == [t |-> "bool", bool |-> b]
JNum(n) == [t |-> "num", num |-> n]
JStr(s) == [t |-> "str", str |-> s]
\* a list holds a sequence of JSON values (each type keeps its value in a
\* field of its own, so that values of two types compare unequal)
JList(items) == [t |-> "list", items |-> items]
\* a dict holds a function from its keys to JSON values
JDict(d) == [t |-> "dict", entries |-> d]

\* `not x` is false for these: bool(x) of a JSON value
bool(x) ==
    CASE x.t = "null" -> FALSE
      [] x.t = "bool" -> x.bool
      [] x.t = "num"  -> x.num # 0
      [] x.t = "str"  -> x.str # ""
      [] x.t = "list" -> x.items # <<>>
      [] x.t = "dict" -> DOMAIN x.entries # {}

isinstance(x, type) == x.t = type

\* d.get(k, default) on a JSON dict
get(d, k, default) == IF k \in DOMAIN d.entries THEN d.entries[k] ELSE default

\* record.update(other) for two dicts: the entries of other win
update(record, other) ==
    [k \in (DOMAIN record) \cup (DOMAIN other) |->
        IF k \in DOMAIN other THEN other[k] ELSE record[k]]

----------------------------------------------------------------------------
(* Tables: pandas.DataFrame *)

\* the cell of a row that has no value for a column
NaN == [t |-> "nan", nan |-> TRUE]

\* pd.DataFrame()
EmptyDataFrame == [columns |-> {}, rows |-> <<>>]

\* pd.DataFrame(records) for a sequence of dicts: one row per dict in
\* order, the columns are the keys seen, a missing key is NaN
DataFrame(records) ==
    LET columns == UNION {DOMAIN records[i] : i \in DOMAIN records}
    IN  IF records = <<>> THEN EmptyDataFrame
        ELSE [columns |-> columns,
              rows |-> [i \in DOMAIN records |->
                          [c \in columns |-> IF c \in DOMAIN records[i]
                                               THEN records[i][c] ELSE NaN]]]

\* pandas nested_to_record: the entries of nested dicts move to the top
\* under dotted keys, every other value stays as it is
RECURSIVE nested_to_record(_, _)
nested_to_record(d, prefix) ==
    LET newkey(k) == IF prefix = "" THEN k ELSE prefix \o "." \o k
        flat == {k \in DOMAIN d : d[k].t # "dict"}
        deep == (DOMAIN d) \ flat
        sub == [k \in deep |-> nested_to_record(d[k].entries, newkey(k))]
        keys == {newkey(k) : k \in flat} \cup UNION {DOMAIN sub[k] : k \in deep}
    IN  [c \in keys |->
            IF \E k \in deep : c \in DOMAIN sub[k]
              THEN sub[CHOOSE k \in deep : c \in DOMAIN sub[k]][c]
              ELSE d[CHOOSE k \in flat : newkey(k) = c]]

\* what the body of a try block produced: a table, or the exception raised
Returned(df) == [exc |-> "", df |-> df]
Raised(exc) == [exc |-> exc, df |-> EmptyDataFrame]

\* pd.DataFrame(data) for a JSON value: a list of dicts gives one row per
\* dict, a list of lists one row per list under the columns 0, 1, ..., a
\* list of scalars one row per scalar under the column 0, a value that is
\* not a list is rejected (lists mixing these do not occur here)
pd_DataFrame(data) ==
    IF data.t = "list" /\ \A i \in DOMAIN data.items : data.items[i].t = "dict"
      THEN Returned(DataFrame([i \in DOMAIN data.items |-> data.items[i].entries]))
    ELSE IF data.t = "list" /\ \A i \in DOMAIN data.items : data.items[i].t = "list"
      THEN Returned(DataFrame([i \in DOMAIN data.items |->
              [c \in {ToString(j - 1) : j \in DOMAIN data.items[i].items} |->
                  data.items[i].items[CHOOSE j \in DOMAIN data.items[i].items : ToString(j - 1) = c]]]))
    ELSE IF data.t = "list"
      THEN Returned(DataFrame([i \in DOMAIN data.items |-> [c \in {"0"} |-> data.items[i]]]))
    ELSE Raised("ValueError")

\* pd.json_normalize(data) for a JSON value: a list of dicts gives one row
\* per flattened dict, a value that is not a list is rejected (what a list
\* of scalars gives depends on the pandas release; none occurs here)
json_normalize(data) ==
    IF data.t = "list" /\ \A i \in DOMAIN data.items : data.items[i].t = "dict"
      THEN Returned(DataFrame([i \in DOMAIN data.items |-> nested_to_record(data.items[i].entries, "")]))
    ELSE IF data.t = "list" THEN Raised("AttributeError")
    ELSE Raised("NotImplementedError")

----------------------------------------------------------------------------
(* utils.response_to_dataframe *)

FeatureRow(exc, record, feature) == [exc |-> exc, record |-> record, feature |-> feature]

\* variant: the row is the feature object itself, updated in place
feature_record_inPlace(feature) ==
    IF feature.t # "dict" THEN FeatureRow("AttributeError", EmptyDict, feature)
    ELSE IF "properties" \notin DOMAIN feature.entries THEN FeatureRow("", feature.entries, feature)
    ELSE IF feature.entries["properties"].t # "dict" THEN FeatureRow("TypeError", EmptyDict, feature)
    ELSE FeatureRow("", update(feature.entries, feature.entries["properties"].entries),
                    JDict(update(feature.entries, feature.entries["properties"].entries)))

\* one pass of the loop over the features: the row built from the feature
\* (or the exception raised) and the feature as the pass leaves it
feature_record(feature) ==
    IF feature.t # "dict" THEN FeatureRow("AttributeError", EmptyDict, feature)
    ELSE LET record == [k \in {"id", "type", "geometry"} |-> get(feature, k, JNull)]
             properties == feature.entries["properties"]
         IN  IF "properties" \notin DOMAIN feature.entries THEN FeatureRow("", record, feature)
             ELSE IF properties.t = "dict"
               THEN FeatureRow("", update(record, properties.entries), feature)
             ELSE IF properties.t \in {"list", "str"} /\ ~bool(properties)
               THEN FeatureRow("", record, feature)
             ELSE IF properties.t \in {"list", "str"}
               THEN FeatureRow("ValueError", EmptyDict, feature)
             ELSE FeatureRow("TypeError", EmptyDict, feature)

Min(S) == CHOOSE i \in S : \A j \in S : i <= j

\* the FeatureCollection branch: the table (or the exception) and the
\* collection as the loop leaves it
convert_features(response_data) ==
    LET features == get(response_data, "features", JList(<<>>))
        passes == [i \in DOMAIN features.items |-> feature_record(features.items[i])]
        failing == {i \in DOMAIN features.items : passes[i].exc # ""}
        done == IF failing = {} THEN Len(features.items) ELSE Min(failing)
        after == JDict(update(response_data.entries,
                    [k \in {"features"} |->
                        JList([i \in DOMAIN features.items |->
                                 IF i <= done THEN passes[i].feature ELSE features.items[i]])]))
    IN  IF features.t = "list"
          THEN [result |-> IF failing = {}
                             THEN Returned(DataFrame([i \in DOMAIN features.items |-> passes[i].record]))
                             ELSE Raised(passes[Min(failing)].exc),
                after |-> IF "features" \in DOMAIN response_data.entries THEN after ELSE response_data]
        ELSE IF features.t \in {"dict", "str"}
          THEN [result |-> IF bool(features) THEN Raised("AttributeError")
                                             ELSE Returned(DataFrame(<<>>)),
                after |-> response_data]
        ELSE [result |-> Raised("TypeError"), after |-> response_data]

\* the body of the try block
convert(response_data, flatten) ==
    IF isinstance(response_data, "dict")
         /\ get(response_data, "type", JNull) = JStr("FeatureCollection")
      THEN convert_features(response_data)
    ELSE IF isinstance(response_data, "dict")
      THEN [result |-> IF flatten THEN json_normalize(JList(<<response_data>>))
                                  ELSE pd_DataFrame(JList(<<response_data>>)),
            after |-> response_data]
    ELSE [result |-> IF flatten THEN json_normalize(response_data)
                                ELSE pd_DataFrame(response_data),
          after |-> response_data]

Normalized(df, exc, response_data) == [df |-> df, raised |-> exc, response_data |-> response_data]

\* variant: no except clause around the conversion
response_to_dataframe_noExcept(response_data, flatten) ==
    IF ~bool(response_data) THEN Normalized(EmptyDataFrame, "", response_data)
    ELSE LET c == convert(response_data, flatten)
         IN  Normalized(c.result.df, c.result.exc, c.after)

\* variant: no test for an empty input
response_to_dataframe_noEmptyTest(response_data, flatten) ==
    LET c == convert(response_data, flatten)
    IN  Normalized(c.result.df, "", c.after)

\* variant: a dict is handed to the table constructor as it is
response_to_dataframe_unwrapped(response_data, flatten) ==
    IF ~bool(response_data) THEN Normalized(EmptyDataFrame, "", response_data)
    ELSE LET c == IF isinstance(response_data, "dict")
                       /\ get(response_data, "type", JNull) # JStr("FeatureCollection")
                    THEN [result |-> IF flatten THEN json_normalize(response_data)
                                                ELSE pd_DataFrame(response_data),
                          after |-> response_data]
                    ELSE convert(response_data, flatten)
         IN  Normalized(c.result.df, "", c.after)

\* response_to_dataframe(response_data, flatten): the table returned, the
\* exception that escapes ("" when none) and the input after the call
response_to_dataframe(response_data, flatten) ==
    IF ~bool(response_data) THEN Normalized(EmptyDataFrame, "", response_data)
    ELSE LET c == convert(response_data, flatten)
         IN  Normalized(c.result.df, "", c.after)

----------------------------------------------------------------------------
(* The inputs handed to response_to_dataframe *)

Point == JDict([type |-> JStr("Point"),
                coordinates |-> JList(<<JNum(18), JNum(-33)>>)])

\* features: complete, without properties, with null properties, with a
\* property named like a feature member, without id and geometry, and an
\* array element that is not an object
Features ==
    { JDict([id |-> JNum(1), type |-> JStr("Feature"), geometry |-> Point,
             properties |-> JDict([farm_portion_id |-> JNum(7)])]),
      JDict([id |-> JNum(2), type |-> JStr("Feature"), geometry |-> Point]),
      JDict([id |-> JNum(3), type |-> JStr("Feature"), geometry |-> Point,
             properties |-> JNull]),
      JDict([id |-> JNum(4), type |-> JStr("Feature"), geometry |-> Point,
             properties |-> JDict([id |-> JNum(9), name |-> JStr("north")])]),
      JDict([type |-> JStr("Feature"),
             properties |-> JDict([name |-> JStr("south")])]),
      JNum(5) }

FeatureLists == UNION { [1..n -> Features] : n \in 0..MaxFeatures }

FeatureCollections ==
    { JDict([type |-> JStr("FeatureCollection"), features |-> JList(fs)]) : fs \in FeatureLists }
    \cup { JDict([type |-> JStr("FeatureCollection"), features |-> JNull]),
           JDict([type |-> JStr("FeatureCollection")]) }

\* null, {}, [], "", 0, false
FalsyValues ==
    { JNull, JDict(EmptyDict), JList(<<>>), JStr(""), JNum(0), JBool(FALSE) }

Scalars == { JNum(5), JStr("abc"), JBool(TRUE) }

\* objects that are not feature collections
Objects ==
    { JDict([a |-> JNum(1)]),
      JDict([a |-> JDict([b |-> JNum(1)]), c |-> JList(<<JNum(1)>>)]),
      JDict([a |-> JDict([b |-> JDict([c |-> JStr("x")])]), d |-> JNull]),
      JDict([type |-> JStr("Feature"), id |-> JNum(1)]),
      JDict([a |-> JDict(EmptyDict)]) }

ObjectLists ==
    { JList(<<JDict([a |-> JNum(1)])>>),
      JList(<<JDict([a |-> JNum(1)]), JDict([b |-> JNum(2)])>>),
      JList(<<JDict([b |-> JNum(2)]), JDict([a |-> JDict([b |-> JNum(1)])])>>) }

JsonInputs == FeatureCollections \cup FalsyValues \cup Scalars \cup Objects \cup ObjectLists

----------------------------------------------------------------------------
(* The normalizer applied to one input: args holds the arguments (after the *)
(* call: as the call left them), ret the table returned                     *)

NormalizerInit ==
    /\ access_token = None
    /\ refresh_token = None
    /\ headers = InitHeaders
    /\ environ = EmptyDict
    /\ client = NoClient
    /\ op = "call"
    /\ \E response_data \in JsonInputs, flatten \in BOOLEAN :
          args = [response_data |-> response_data, flatten |-> flatten]
    /\ ret = None
    /\ raised = ""
    /\ sent = <<>>
    /\ invoked = <<>>
    /\ resp = [response_data |-> args.response_data]

Normalize ==
    /\ op = "call"
    /\ \E n \in {response_to_dataframe(args.response_data, args.flatten)} :
        /\ op' = "response_to_dataframe"
        /\ args' = [response_data |-> n.response_data, flatten |-> args.flatten]
        /\ ret' = n.df
        /\ raised' = n.raised
    /\ UNCHANGED <<access_token, refresh_token, headers, environ, client, sent, invoked, resp>>

NormalizerNext == Normalize

SpecNormalizer == NormalizerInit /\ [][NormalizerNext]_vars

----------------------------------------------------------------------------
(* Properties of response_to_dataframe *)

\* the call has returned or raised
Normalized_done == op = "response_to_dataframe"

\* the input of the call
Input == resp.response_data

\* a FeatureCollection whose features are an array of objects
IsFeatureCollection(x) ==
    /\ x.t = "dict"
    /\ get(x, "type", JNull) = JStr("FeatureCollection")
    /\ "features" \in DOMAIN x.entries
    /\ x.entries["features"].t = "list"
    /\ \A i \in DOMAIN x.entries["features"].items : x.entries["features"].items[i].t = "dict"

\* the row carries the feature's own id, type and geometry and has a column
\* for every key of the feature's properties
CarriesFeature(row, feature) ==
    /\ \A k \in {"id", "type", "geometry"} :
          k \in DOMAIN row /\ row[k] = get(feature, k, JNull)
    /\ get(feature, "properties", JNull).t = "dict"
          => \A k \in DOMAIN feature.entries["properties"].entries : k \in DOMAIN row

\* C11: for a FeatureCollection with N features the table has exactly N
\* rows in feature order, the i-th row carrying the i-th feature's own id,
\* type and geometry (the geometry as the sub-object it is) and every key of
\* that feature's properties.
C11_FeatureRows ==
    (Normalized_done /\ IsFeatureCollection(Input)) =>
        LET features == Input.entries["features"].items
        IN  /\ raised = ""
            /\ Len(ret.rows) = Len(features)
            /\ \A i \in DOMAIN features : CarriesFeature(ret.rows[i], features[i])

\* C12: for a falsy or empty input (null, {}, [], "", 0, false), flatten on
\* or off, the call returns a table with zero rows and does not raise.
C12_FalsyGivesNoRows ==
    (Normalized_done /\ Input \in FalsyValues) =>
        /\ raised = ""
        /\ Len(ret.rows) = 0

C12_Witness ==
    /\ Normalized_done
    /\ Input = JDict(EmptyDict)
    /\ args.flatten
    /\ ret = EmptyDataFrame

\* a single JSON object that is not a FeatureCollection
IsObject(x) ==
    /\ x.t = "dict"
    /\ get(x, "type", JNull) # JStr("FeatureCollection")

\* key paths into an object, up to the nesting depth of the inputs
Keys == {"a", "b", "c", "d", "id", "type"}
Paths == UNION { [1..n -> Keys] : n \in 1..MaxDepth }

RECURSIVE Dotted(_)
Dotted(path) ==
    IF Len(path) = 1 THEN path[1] ELSE path[1] \o "." \o Dotted(Tail(path))

\* the path leads through nested objects of x to a value
RECURSIVE Leads(_, _)
Leads(x, path) ==
    /\ x.t = "dict"
    /\ path[1] \in DOMAIN x.entries
    /\ Len(path) > 1 => Leads(x.entries[path[1]], Tail(path))

RECURSIVE At(_, _)
At(x, path) ==
    IF Len(path) = 1 THEN x.entries[path[1]] ELSE At(x.entries[path[1]], Tail(path))

\* the row holds the fields of the object: with flatten one column per
\* dotted path to a value that is not an object, otherwise one column per
\* key with the value as it is
RowOfObject(row, x, flatten) ==
    IF flatten
      THEN /\ \A path \in Paths :
                (Leads(x, path) /\ At(x, path).t # "dict") =>
                    Dotted(path) \in DOMAIN row /\ row[Dotted(path)] = At(x, path)
           /\ \A c \in DOMAIN row :
                \E path \in Paths :
                    Dotted(path) = c /\ Leads(x, path) /\ At(x, path).t # "dict"
      ELSE /\ DOMAIN row = DOMAIN x.entries
           /\ \A k \in DOMAIN row : row[k] = x.entries[k]

OneRowOfObject ==
    /\ raised = ""
    /\ Len(ret.rows) = 1
    /\ RowOfObject(ret.rows[1], Input, args.flatten)

\* C13 as stated: every single JSON object that is not a FeatureCollection
\* gives exactly one row holding the object's fields.
C13_Original ==
    (Normalized_done /\ IsObject(Input)) => OneRowOfObject

\* C13: every single non-empty JSON object that is not a FeatureCollection
\* gives exactly one row whose columns and values are the object's fields,
\* dotted-path flattened when flatten is requested and kept as they are
\* otherwise.
C13_ObjectGivesOneRow ==
    (Normalized_done /\ IsObject(Input) /\ bool(Input)) => OneRowOfObject

C13_Witness ==
    /\ Normalized_done
    /\ Input = JDict([a |-> JDict([b |-> JNum(1)]), c |-> JList(<<JNum(1)>>)])
    /\ args.flatten
    /\ Len(ret.rows) = 1
    /\ ret.columns = {"a.b", "c"}

\* inputs the conversion fails on: a value that is no object and no array,
\* a FeatureCollection whose features are null, or one with a feature that
\* is not an object or has null properties
ConversionFails(x) ==
    \/ x \in Scalars
    \/ /\ x.t = "dict"
       /\ get(x, "type", JNull) = JStr("FeatureCollection")
       /\ LET features == get(x, "features", JList(<<>>))
          IN  \/ features.t = "null"
              \/ /\ features.t = "list"
                 /\ \E i \in DOMAIN features.items :
                       \/ features.items[i].t # "dict"
                       \/ get(features.items[i], "properties", JStr("")).t = "null"

\* C14: no call lets an exception escape, whatever the input; when the
\* conversion fails the result is an empty table with zero rows.
C14_NeverRaises ==
    Normalized_done =>
        /\ raised = ""
        /\ ConversionFails(Input) => ret = EmptyDataFrame

C14_Witness ==
    /\ Normalized_done
    /\ Input = JDict([type |-> JStr("FeatureCollection"), features |-> JNull])
    /\ raised = ""
    /\ ret = EmptyDataFrame

\* the rows follow the input: the i-th row holds the entries of the i-th
\* object of an array, the properties of the i-th feature of a collection
RowsInInputOrder(df, x, flatten) ==
    /\ (x.t = "list" /\ ~flatten) =>
          /\ Len(df.rows) = Len(x.items)
          /\ \A i \in DOMAIN x.items :
                \A k \in DOMAIN x.items[i].entries : df.rows[i][k] = x.items[i].entries[k]
    /\ (IsFeatureCollection(x) /\ ~ConversionFails(x)) =>
          /\ Len(df.rows) = Len(x.entries["features"].items)
          /\ \A i \in DOMAIN x.entries["features"].items :
                LET feature == x.entries["features"].items[i]
                IN  IF "properties" \in DOMAIN feature.entries
                      THEN \A k \in DOMAIN feature.entries["properties"].entries :
                              df.rows[i][k] = feature.entries["properties"].entries[k]
                      ELSE df.rows[i]["id"] = get(feature, "id", JNull)

\* C15: a call leaves its input (every feature and its properties object
\* included) as it was, and the rows of the table it returns are in the
\* order of the input.
C15_InputUnchanged ==
    [][ op' = "response_to_dataframe" =>
            /\ args' = args
            /\ RowsInInputOrder(ret', args.response_data, args.flatten) ]_vars

C15_Witness ==
    /\ Normalized_done
    /\ IsFeatureCollection(Input)
    /\ Len(Input.entries["features"].items) = 2
    /\ Len(ret.rows) = 2
    /\ ret.rows[1]["id"] = JNum(9)
    /\ ret.rows[2]["id"] = JNum(1)
    /\ args.response_data = Input

----------------------------------------------------------------------------
(* utils.handle_error_response applied to one response: resp holds the      *)
(* response, ret the (success, error message) pair returned                 *)

InterpreterStatuses == Statuses \cup {201, 404, 500}

\* the content-type header: JSON, HTML, HTML with a charset, absent
ContentTypes == {"application/json", "text/html", "text/html; charset=utf-8", ""}

\* the resource bodies, an empty object, and objects carrying a serialized
\* AttributeError under another key or next to a `detail`
InterpreterBodies ==
    ResourceBodies
    \cup {[parses |-> TRUE, type |-> "dict", data |-> EmptyDict]}
    \cup {[parses |-> TRUE, type |-> "dict",
           data |-> [k \in {"<class 'AttributeError'>: 'profile'"} |-> "x"]]}
    \cup {[parses |-> TRUE, type |-> "dict",
           data |-> [k \in {"detail", AttributeErrorKey} |-> "x"]]}

InterpreterResponses ==
    {[kind |-> "response", status_code |-> s, content_type |-> c, body |-> b]
        : s \in InterpreterStatuses, c \in ContentTypes, b \in InterpreterBodies}

InterpreterInit ==
    /\ access_token = None
    /\ refresh_token = None
    /\ headers = InitHeaders
    /\ environ = EmptyDict
    /\ client = NoClient
    /\ op = "call"
    /\ args = EmptyDict
    /\ ret = [success |-> FALSE, error_msg |-> None]
    /\ raised = ""
    /\ sent = <<>>
    /\ invoked = <<>>
    /\ resp \in InterpreterResponses

Interpret ==
    /\ op = "call"
    /\ op' = "handle_error_response"
    /\ ret' = handle_error_response(resp)
    /\ UNCHANGED <<access_token, refresh_token, headers, environ, client,
                   args, raised, sent, invoked, resp>>

InterpreterNext == Interpret

SpecInterpreter == InterpreterInit /\ [][InterpreterNext]_vars

----------------------------------------------------------------------------
(* Properties of handle_error_response *)

Interpreted == op = "handle_error_response"

Failure(error_msg) == [success |-> FALSE, error_msg |-> error_msg]

IsHtml == Contains(resp.content_type, "text/html")

\* C16: a response whose content type contains text/html is classified
\* (False, "Received HTML response instead of JSON"), whatever its status
\* code and whatever its body.
C16_HtmlFirst ==
    (Interpreted /\ IsHtml) => ret = Failure("Received HTML response instead of JSON")

C16_Witness ==
    /\ Interpreted
    /\ resp.content_type = "text/html; charset=utf-8"
    /\ resp.status_code = 200
    /\ resp.body.parses
    /\ resp.body.type = "dict"
    /\ ret = Failure("Received HTML response instead of JSON")

\* the body is an object with a key that starts with the serialized
\* AttributeError class name
HasSignature ==
    /\ resp.body.parses
    /\ resp.body.type = "dict"
    /\ \E k \in DOMAIN resp.body.data : startswith(k, "<class 'AttributeError'>")

\* the message of a failure: `detail` of an object that has it, the
\* stringified body otherwise
DetailOrBody ==
    IF resp.body.type = "dict" /\ "detail" \in DOMAIN resp.body.data
      THEN resp.body.data["detail"]
      ELSE str(resp.body)

\* C17 as stated: success exactly for a 2xx status with an object or array,
\* every other parsed body a failure with `detail` or the stringified body.
C17_Original ==
    (Interpreted /\ ~IsHtml) =>
        /\ ~resp.body.parses => ret = Failure("Invalid JSON response")
        /\ (resp.body.parses /\ ~HasSignature) =>
              IF Is2xx(resp.status_code) /\ resp.body.type \in {"dict", "list"}
                THEN ret = [success |-> TRUE, error_msg |-> None]
                ELSE ret = Failure(DetailOrBody)

\* C17: for a response that is not HTML, an unparsable body is a failure
\* with "Invalid JSON response"; a parsed body without the defect signature
\* is a success without message exactly when the status is not an error
\* status (not 4xx or 5xx) and the body is an object or array, a failure
\* with "Invalid response format" when the status is not an error status
\* and the body is neither, and for an error status a failure with `detail`
\* of an object that has it and the stringified body otherwise.
C17_Classification ==
    (Interpreted /\ ~IsHtml) =>
        /\ ~resp.body.parses => ret = Failure("Invalid JSON response")
        /\ (resp.body.parses /\ ~HasSignature) =>
              IF ~IsErrorStatus(resp.status_code) /\ resp.body.type \in {"dict", "list"}
                THEN ret = [success |-> TRUE, error_msg |-> None]
              ELSE IF ~IsErrorStatus(resp.status_code)
                THEN ret = Failure("Invalid response format")
              ELSE ret = Failure(DetailOrBody)

C17_Witness ==
    /\ Interpreted
    /\ resp.content_type = "application/json"
    /\ resp.status_code = 404
    /\ resp.body.type = "dict"
    /\ DOMAIN resp.body.data = {"detail"}
    /\ ret = Failure("x")

\* C18 as stated: every object body with the signature is a failure with
\* the fixed message.
C18_Original ==
    (Interpreted /\ HasSignature) =>
        ret = Failure("Authentication service temporarily unavailable")

\* C18: an object body with a key that starts with the serialized
\* AttributeError class name is a failure whatever the status, with the
\* fixed message when the response is not HTML (with the HTML message
\* otherwise), and the server's error text is not in the message.
C18_SignatureMasked ==
    (Interpreted /\ HasSignature) =>
        /\ ~ret.success
        /\ ~IsHtml => ret.error_msg = "Authentication service temporarily unavailable"
        /\ IsHtml => ret.error_msg = "Received HTML response instead of JSON"
        /\ ~Contains(ret.error_msg, "AttributeError")

C18_Witness ==
    /\ Interpreted
    /\ resp.status_code = 200
    /\ resp.content_type = "application/json"
    /\ DOMAIN resp.body.data = {"<class 'AttributeError'>: 'profile'"}
    /\ ret = Failure("Authentication service temporarily unavailable")

----------------------------------------------------------------------------
(* Properties of the resource clients' get methods *)

GetMethods == FieldsMethods \cup {"get_farm_portions"}

\* the method issued its request
Requested == sent # <<>>

\* the request failed at the transport layer or the error interpreter
\* classified the response as a failure
RequestFailed == resp.kind = "error" \/ ~handle_error_response(resp).success

\* a raise happens before any request, for a missing or malformed extent
RaisesOnlyBeforeRequest ==
    raised # "" =>
        /\ sent = <<>>
        /\ op = "get_farm_portions"
        /\ Len(args.extent) # 4

\* C20 as stated: None for a failed request, a table otherwise, a raise only
\* for a precondition violated before the request.
C20_Original ==
    op \in GetMethods =>
        /\ (Requested /\ RequestFailed) => (ret = "None" /\ raised = "")
        /\ (Requested /\ ~RequestFailed) => (ret = "DataFrame" /\ raised = "")
        /\ RaisesOnlyBeforeRequest

\* C20: a get_* method returns None without raising when its request fails
\* at the transport layer or the error interpreter classifies the response
\* as a failure; FarmPortions.get_farm_portions also returns None when the
\* response is classified a success and its body is not a FeatureCollection;
\* otherwise the method returns a table; it raises only for a precondition
\* violated before the request.
C20_GetResults ==
    op \in GetMethods =>
        /\ (Requested /\ RequestFailed) => (ret = "None" /\ raised = "")
        /\ (Requested /\ ~RequestFailed) =>
              /\ raised = ""
              /\ ret = IF op = "get_farm_portions"
                            /\ ~(resp.body.type = "dict" /\ "type" \in DOMAIN resp.body.data
                                 /\ resp.body.data["type"] = "FeatureCollection")
                         THEN "None" ELSE "DataFrame"
        /\ RaisesOnlyBeforeRequest

C20_Witness ==
    /\ op = "get_farm_portions"
    /\ args.extent = <<1, 2, 3, 4>>
    /\ Requested
    /\ resp.status_code = 200
    /\ resp.body.type = "dict"
    /\ DOMAIN resp.body.data = {"id"}
    /\ ret = "None"
    /\ raised = ""

----------------------------------------------------------------------------
(* powerbi_wrapper: the entry points called from Power BI *)

\* the features the name "portions" of FeatureCollectionBody stands for
PortionFeatures ==
    << JDict([id |-> JNum(7), type |-> JStr("Feature"), geometry |-> Point,
              properties |-> JDict([portion_id |-> JNum(7), farm_id |-> JNum(1)])]) >>

\* response.json() of a resource body
json(body) ==
    IF body.type = "dict" /\ "features" \in DOMAIN body.data
      THEN JDict([type |-> JStr(body.data["type"]), features |-> JList(PortionFeatures)])
    ELSE IF body.type = "dict"
      THEN JDict([k \in DOMAIN body.data |-> JStr(body.data[k])])
    ELSE IF body.type = "list" THEN JList(<<>>)
    ELSE JStr(body.data["value"])

\* what a call gives back: a value (None or a table) or an exception
Value(kind, df) == [kind |-> kind, df |-> df, exc |-> "", msg |-> ""]
Throw(exc, msg) == [kind |-> "", df |-> EmptyDataFrame, exc |-> exc, msg |-> msg]
NoneValue == Value("None", EmptyDataFrame)

\* the get method the entry point calls on its resource client, answered net
client_get(method, net) ==
    IF net.kind = "error" THEN NoneValue
    ELSE IF ~handle_error_response(net).success THEN NoneValue
    ELSE IF method = "GeoServerInfo.get_info"
      THEN Value("DataFrame", response_to_dataframe(JList(<<json(net.body)>>), FALSE).df)
    ELSE IF method = "FarmPortions.get_farm_portions" /\ ~IsFeatureCollectionBody(net.body)
      THEN NoneValue
    ELSE Value("DataFrame", response_to_dataframe(json(net.body), FALSE).df)

\* ', '.join(cols)
RECURSIVE join(_)
join(cols) ==
    IF cols = <<>> THEN ""
    ELSE IF Len(cols) = 1 THEN cols[1]
    ELSE cols[1] \o ", " \o join(Tail(cols))

\* validate_dataframe(df, required_columns): returns None or raises
validate_dataframe(df, required_columns) ==
    LET missing_cols == SelectSeq(required_columns, LAMBDA col : col \notin df.df.columns)
    IN  IF df.kind = "None"
          THEN Throw("AttributeError", "'NoneType' object has no attribute 'empty'")
        ELSE IF df.df.rows = <<>> \/ df.df.columns = {}
          THEN Throw("DataValidationError", "No data returned from API")
        ELSE IF missing_cols # <<>>
          THEN Throw("DataValidationError", "Missing required columns: " \o join(missing_cols))
        ELSE NoneValue

\* pd.DataFrame({'error': [msg]})
ErrorTable(msg) ==
    Value("DataFrame", [columns |-> {"error"}, rows |-> <<[c \in {"error"} |-> JStr(msg)]>>])

\* the decorator: what the wrapped function raised becomes a one-row table
handle_api_error(r) ==
    IF r.exc = "" THEN r
    ELSE IF r.exc = "AuthenticationError"
      THEN ErrorTable("Authentication failed. Please check your credentials.")
    ELSE IF r.exc = "APIError" THEN ErrorTable("API Error: " \o r.msg)
    ELSE IF r.exc = "RequestException"
      THEN ErrorTable("Network error. Please check your internet connection.")
    ELSE ErrorTable("Unexpected error: " \o r.msg)

WrapperEntries ==
    {"get_workspaces", "get_fields", "get_farms", "get_field_notes",
     "get_farm_portions", "get_geoserver_info"}

\* the entry points defined under @handle_api_error
Decorated == {"get_workspaces", "get_farm_portions"}

FieldIds == {None, "5"}

\* the entry point reaches a GET of its resource client
Gets(entry, field_id, extent) ==
    \/ entry \in {"get_fields", "get_farms", "get_geoserver_info"}
    \/ entry = "get_field_notes" /\ Truthy(field_id)
    \/ entry = "get_farm_portions" /\ ValidExtent(extent)

\* the validation that follows the client call in the decorated entry points
validated(df, required_columns, what) ==
    LET v == validate_dataframe(df, required_columns)
    IN  IF v.exc = "" THEN df
        ELSE IF v.exc = "DataValidationError"
          THEN Throw("APIError", "Invalid " \o what \o " data returned: " \o v.msg)
        ELSE v

\* the function of the entry point, o being what login gave on its new
\* TerraCLIMAuth and net the answer to the client's GET
entry_function(entry, o, field_id, extent, net) ==
    IF o.raised # "" THEN Throw(o.raised, "Username and password must be provided")
    ELSE IF o.ret # "True"
      THEN IF entry \in Decorated
             THEN Throw("AuthenticationError", "Failed to authenticate with provided credentials")
             ELSE Value("DataFrame", EmptyDataFrame)
    ELSE IF entry = "get_workspaces"
      THEN Throw("AttributeError", "'GeoServerInfo' object has no attribute 'get_workspaces'")
    ELSE IF entry = "get_fields" THEN client_get("Fields.get_fields", net)
    ELSE IF entry = "get_farms" THEN client_get("Farms.get_farms", net)
    ELSE IF entry = "get_field_notes"
      THEN IF Truthy(field_id)
             THEN client_get("FieldNotes.get_field_notes", net)
             ELSE Throw("AttributeError", "'FieldNotes' object has no attribute 'get_all_notes'")
    ELSE IF entry = "get_geoserver_info" THEN client_get("GeoServerInfo.get_info", net)
    ELSE IF extent = <<>> THEN Throw("ValueError", "The extent parameter is required")
    ELSE IF ~ValidExtent(extent)
      THEN Throw("ValueError", "Extent must be a list of 4 coordinates [minx, miny, maxx, maxy]")
    ELSE validated(client_get("FarmPortions.get_farm_portions", net),
                   <<"portion_id", "farm_id">>, "farm portions")

\* the entry point as Power BI calls it
wrapper(entry, o, field_id, extent, net) ==
    IF entry \in Decorated
      THEN handle_api_error(entry_function(entry, o, field_id, extent, net))
      ELSE entry_function(entry, o, field_id, extent, net)

\* answers of the token endpoint: no answer, a refusal, a pair of tokens
WrapperLoginOutcomes ==
    {n \in TokenOutcomes :
        \/ n.kind = "error"
        \/ n.status_code = 401 /\ n.body.type = "dict" /\ DOMAIN n.body.data = {"detail"}
        \/ /\ n.status_code = 200 /\ n.body.type = "dict"
           /\ DOMAIN n.body.data = {"access", "refresh"} /\ n.body.data["access"] = "AAA"}


WrapperInit ==
    /\ access_token = None
    /\ refresh_token = None
    /\ headers = InitHeaders
    /\ environ \in Environments
    /\ client = NoClient
    /\ op = "import"
    /\ args = EmptyDict
    /\ ret = [kind |-> "None", df |-> EmptyDataFrame]
    /\ raised = ""
    /\ sent = <<>>
    /\ invoked = <<>>
    /\ resp = [login |-> NoResponse, get |-> NoResponse]

\* one call of an entry point: it logs in on a TerraCLIMAuth of its own and
\* calls its resource client
WrapperCall ==
    \E entry \in WrapperEntries, username \in Usernames, password \in Passwords :
      \E field_id \in IF entry = "get_field_notes" THEN FieldIds ELSE {None},
         extent \in IF entry = "get_farm_portions" THEN Extents ELSE {<<>>} :
        \E loginNet \in IF HasCredentials(username, password)
                          THEN WrapperLoginOutcomes ELSE {NetworkError} :
          \E o \in {login(None, None, InitHeaders, username, password, loginNet)} :
            \E net \in IF o.ret = "True" /\ Gets(entry, field_id, extent)
                         THEN ResourceOutcomes ELSE {NetworkError} :
              \E r \in {wrapper(entry, o, field_id, extent, net)} :
                /\ op' = entry
                /\ args' = [username |-> username, password |-> password,
                            field_id |-> field_id, extent |-> extent]
                /\ ret' = [kind |-> r.kind, df |-> r.df]
                /\ raised' = r.exc
                /\ sent' = o.sent
                /\ invoked' = <<Call("login", o.ret)>>
                /\ resp' = [login |-> IF o.sent = <<>> THEN NoResponse ELSE loginNet,
                            get |-> IF o.ret = "True" /\ Gets(entry, field_id, extent)
                                      THEN net ELSE NoResponse]
                /\ UNCHANGED <<access_token, refresh_token, headers, environ, client>>

WrapperNext == WrapperCall

SpecWrapper == WrapperInit /\ [][WrapperNext]_vars

----------------------------------------------------------------------------
(* Properties of the wrapper *)

\* a table with the single column `error` and one row
IsErrorTable(df) == df.columns = {"error"} /\ Len(df.rows) = 1

\* the login of the call failed, or its GET failed at the transport layer or
\* was classified a failure by the error interpreter
CallFailed ==
    \/ invoked # <<Call("login", "True")>>
    \/ resp.get.kind = "error"
    \/ resp.get.kind = "response" /\ ~handle_error_response(resp.get).success

\* C19: every entry point of the wrapper returns a table, never raises and
\* never returns None; when authentication, the API or the network fails the
\* table has a single row and an `error` column.
C19_AlwaysTable ==
    op \in WrapperEntries =>
        /\ raised = ""
        /\ ret.kind = "DataFrame"
        /\ CallFailed => IsErrorTable(ret.df)

\* a decorated entry point turns a failure into the error table
C19_ErrorTableReached ==
    /\ op = "get_farm_portions"
    /\ resp.get.kind = "error"
    /\ raised = ""
    /\ IsErrorTable(ret.df)

----------------------------------------------------------------------------
(* The get methods that take parameters, on a client built on an            *)
(* authenticated session: AnalysisStats.get_analysis_stats,                 *)
(* OverviewStats.get_overview_stats, FarmPortions.get_farm_portions         *)

\* utils.get_api_url(endpoint) for a versioned endpoint
get_api_url(endpoint) == "https://dashboard.staging.terraclim.co.za/api/v0/" \o endpoint

\* requests.get(url, params=params, headers=headers)
GetRequest(url, params, hdrs) ==
    [method |-> "GET", url |-> url, params |-> params, headers |-> hdrs]

\* an argument the caller left out of the call
Omitted == [t |-> "omitted", omitted |-> TRUE]

\* datetime.now().strftime('%Y-%m-%d')
Today == "2025-08-29"

\* the dates handed in: none, a date, text that is not a date
Dates == {None, "2025-06-30", "30/06/2025"}

IsDate(date_str) == date_str \in {"2025-06-30", "2025-08-29", "2025-05-01", "2025-01-01"}

\* (datetime.strptime(end_date, '%Y-%m-%d') - timedelta(days=60)).strftime('%Y-%m-%d')
SixtyDaysBefore(end_date) ==
    IF end_date = "2025-08-29" THEN "2025-06-30" ELSE "2025-05-01"

\* utils.format_date: the ISO form of a date, None for anything else
format_date(date_str) ==
    IF ~Truthy(date_str) THEN None
    ELSE IF IsDate(date_str) THEN date_str \o "T00:00:00"
    ELSE None

\* str(x) of a number
str_num(x) == ToString(x.num)

\* ','.join(map(str, field_ids)) and ', '.join(map(str, extent))
RECURSIVE join_str(_, _)
join_str(sep, items) ==
    IF items = <<>> THEN ""
    ELSE IF Len(items) = 1 THEN str_num(items[1])
    ELSE str_num(items[1]) \o sep \o join_str(sep, Tail(items))

\* what a get method did: the value returned or the exception raised, and
\* the requests issued
Did(r, e, s) == [ret |-> r, raised |-> e, sent |-> s]

\* the part every get method shares: None for a failed request, a table
\* otherwise
answered(net) ==
    IF net.kind = "error" THEN "None"
    ELSE IF ~handle_error_response(net).success THEN "None"
    ELSE "DataFrame"

FieldIdArgs == {JNull, JNum(478), JNum(-1), JList(<<JNum(1), JNum(2)>>)}

\* AnalysisStats.get_analysis_stats(start_date, end_date, field_ids)
get_analysis_stats(hdrs, start_date, end_date, field_ids, net) ==
    LET end == IF ~Truthy(end_date) THEN Today ELSE end_date
        start == IF ~Truthy(start_date) THEN SixtyDaysBefore(end) ELSE start_date
        dates == [k \in {"start_date", "end_date"} |->
                    IF k = "start_date" THEN format_date(start) ELSE format_date(end)]
        params == IF field_ids = JNull THEN dates
                  ELSE SetItem(dates, "field_id",
                               IF field_ids.t = "list" THEN join_str(",", field_ids.items)
                                                       ELSE str_num(field_ids))
    IN  IF ~Truthy(start_date) /\ ~IsDate(end)
          THEN Did("", "ValueError", <<>>)
          ELSE Did(answered(net), "", <<GetRequest(get_api_url("analysis-stats/"), params, hdrs)>>)


IdArgs == {JNull, JNum(0), JNum(-1), JNum(12)}

\* the query parameters of get_overview_stats: every id that is not None
overview_params(farm_id, field_id) ==
    [k \in (IF field_id # JNull THEN {"fieldID"} ELSE {})
             \cup (IF farm_id # JNull THEN {"farm_id"} ELSE {}) |->
        IF k = "fieldID" THEN field_id ELSE farm_id]

\* variant: an id is taken as given only when it is truthy
get_overview_stats_truthy(hdrs, farm_id, field_id, net) ==
    IF ~bool(farm_id) /\ ~bool(field_id)
      THEN Did("", "ValueError", <<>>)
      ELSE Did(answered(net), "",
               <<GetRequest(get_api_url("overview-stats/"),
                            overview_params(farm_id, field_id), hdrs)>>)

\* OverviewStats.get_overview_stats(farm_id, field_id)
get_overview_stats(hdrs, farm_id, field_id, net) ==
    IF farm_id = JNull /\ field_id = JNull
      THEN Did("", "ValueError", <<>>)
      ELSE Did(answered(net), "",
               <<GetRequest(get_api_url("overview-stats/"),
                            overview_params(farm_id, field_id), hdrs)>>)

\* the extent argument: left out, None, [], three numbers, four numbers,
\* five numbers, four strings, a string among numbers, a string
ExtentArgs ==
    { Omitted, JNull, JList(<<>>),
      JList(<<JNum(1), JNum(2), JNum(3)>>),
      JList(<<JNum(18), JNum(-34), JNum(19), JNum(-33)>>),
      JList(<<JNum(1), JNum(2), JNum(3), JNum(4), JNum(5)>>),
      JList(<<JStr("a"), JStr("b"), JStr("c"), JStr("d")>>),
      JList(<<JNum(1), JStr("b"), JNum(3), JNum(4)>>),
      JStr("1,2,3,4") }

FarmIdArgs == {JNull, JNum(123)}

\* variant: the number of elements of the extent is not looked at
build_url_anyLength(farm_id, extent) ==
    IF extent.t # "list" THEN ""
    ELSE IF \E i \in DOMAIN extent.items : extent.items[i].t # "num" THEN ""
    ELSE get_api_url("farms/portions/") \o "?"
         \o (IF bool(farm_id) THEN "farm_id=" \o str_num(farm_id) \o "&" ELSE "")
         \o "extent=[" \o join_str(", ", extent.items) \o "]"

\* FarmPortions._build_url(farm_id, extent) for a truthy extent: the URL, or
\* "" when it raises ValueError
build_url(farm_id, extent) ==
    IF extent.t # "list" THEN ""
    ELSE IF Len(extent.items) # 4 THEN ""
    ELSE IF \E i \in DOMAIN extent.items : extent.items[i].t # "num" THEN ""
    ELSE get_api_url("farms/portions/") \o "?"
         \o (IF bool(farm_id) THEN "farm_id=" \o str_num(farm_id) \o "&" ELSE "")
         \o "extent=[" \o join_str(", ", extent.items) \o "]"

\* FarmPortions.get_farm_portions(extent, farm_id)
get_farm_portions(hdrs, extent, farm_id, net) ==
    IF extent = Omitted THEN Did("", "TypeError", <<>>)
    ELSE IF ~bool(extent) THEN Did("", "ValueError", <<>>)
    ELSE IF build_url(farm_id, extent) = "" THEN Did("", "ValueError", <<>>)
    ELSE Did(IF answered(net) = "DataFrame" /\ ~IsFeatureCollectionBody(net.body)
               THEN "None" ELSE answered(net),
             "", <<GetRequest(build_url(farm_id, extent), EmptyDict, hdrs)>>)

\* the parametrised clients
ParamClients == {"AnalysisStats", "OverviewStats", "FarmPortions"}

\* a client of one of the three classes built on a session that is logged in
RequestsInit ==
    /\ access_token \in AccessTokens
    /\ refresh_token = "RRR"
    /\ headers = SetItem(InitHeaders, "Authorization", Bearer(access_token))
    /\ environ = EmptyDict
    /\ client \in {[cls |-> c, shared |-> TRUE] : c \in ParamClients}
    /\ op = "__init__"
    /\ args = EmptyDict
    /\ ret = "client"
    /\ raised = ""
    /\ sent = <<>>
    /\ invoked = <<Call("is_authenticated", "True")>>
    /\ resp = NoResponse

\* the method ran and did d, net being the answer to its request if any
Record(method, a, d, net) ==
    /\ op' = method
    /\ args' = a
    /\ ret' = d.ret
    /\ raised' = d.raised
    /\ sent' = d.sent
    /\ invoked' = IF d.sent = <<>> THEN <<>> ELSE <<Call("get_headers", "headers")>>
    /\ resp' = IF d.sent = <<>> THEN NoResponse ELSE net
    /\ UNCHANGED <<access_token, refresh_token, headers, environ, client>>

\* the answers a request can get: none when the method issues no request
Answers(issues) == IF issues THEN ResourceOutcomes ELSE {NetworkError}

AnalysisStatsGet ==
    /\ client.cls = "AnalysisStats"
    /\ \E start_date \in Dates, end_date \in Dates, field_ids \in FieldIdArgs :
        \E net \in Answers(get_analysis_stats(get_headers, start_date, end_date,
                                              field_ids, NetworkError).sent # <<>>) :
          Record("get_analysis_stats",
                 [start_date |-> start_date, end_date |-> end_date, field_ids |-> field_ids],
                 get_analysis_stats(get_headers, start_date, end_date, field_ids, net), net)

OverviewStatsGet ==
    /\ client.cls = "OverviewStats"
    /\ \E farm_id \in IdArgs, field_id \in IdArgs :
        \E net \in Answers(get_overview_stats(get_headers, farm_id, field_id,
                                              NetworkError).sent # <<>>) :
          Record("get_overview_stats", [farm_id |-> farm_id, field_id |-> field_id],
                 get_overview_stats(get_headers, farm_id, field_id, net), net)

FarmPortionsGet ==
    /\ client.cls = "FarmPortions"
    /\ \E extent \in ExtentArgs, farm_id \in FarmIdArgs :
        \E net \in Answers(get_farm_portions(get_headers, extent, farm_id,
                                             NetworkError).sent # <<>>) :
          Record("get_farm_portions", [extent |-> extent, farm_id |-> farm_id],
                 get_farm_portions(get_headers, extent, farm_id, net), net)

RequestsNext ==
    \/ AnalysisStatsGet
    \/ OverviewStatsGet
    \/ FarmPortionsGet

SpecRequests == RequestsInit /\ [][RequestsNext]_vars

----------------------------------------------------------------------------
(* Properties of the parametrised get methods *)

\* C21: get_analysis_stats called without field_ids raises ValueError and
\* issues no HTTP request.
C21_FieldIdsRequired ==
    (op = "get_analysis_stats" /\ args.field_ids = JNull) =>
        /\ raised = "ValueError"
        /\ sent = <<>>

\* C22: get_overview_stats with neither farm_id nor field_id raises
\* ValueError before any request; with at least one of them given (0 and
\* negative ids included) it issues one request that carries every id given
\* and no other.
C22_OverviewIds ==
    op = "get_overview_stats" =>
        IF args.farm_id = JNull /\ args.field_id = JNull
          THEN raised = "ValueError" /\ sent = <<>>
          ELSE /\ raised = ""
               /\ Len(sent) = 1
               /\ args.farm_id # JNull <=> "farm_id" \in DOMAIN sent[1].params
               /\ args.field_id # JNull <=> "fieldID" \in DOMAIN sent[1].params
               /\ args.farm_id # JNull => sent[1].params["farm_id"] = args.farm_id
               /\ args.field_id # JNull => sent[1].params["fieldID"] = args.field_id

C22_Witness ==
    /\ op = "get_overview_stats"
    /\ args.farm_id = JNum(0)
    /\ args.field_id = JNull
    /\ Len(sent) = 1
    /\ sent[1].params = [k \in {"farm_id"} |-> JNum(0)]


\* a list of exactly four numbers
IsBoundingBox(extent) ==
    /\ extent.t = "list"
    /\ Len(extent.items) = 4
    /\ \A i \in 1..4 : extent.items[i].t = "num"

\* "[minx, miny, maxx, maxy]"
QueryValue(extent) ==
    "[" \o ToString(extent.items[1].num) \o ", " \o ToString(extent.items[2].num)
        \o ", " \o ToString(extent.items[3].num) \o ", " \o ToString(extent.items[4].num) \o "]"

ExtentRefused == raised = "ValueError" /\ sent = <<>>

ExtentSent ==
    /\ raised = ""
    /\ Len(sent) = 1
    /\ Contains(sent[1].url, "extent=" \o QueryValue(args.extent))

----------------------------------------------------------------------------
(* The command-line scripts: main() of each module that reads sys.argv *)

Scripts ==
    {"auth", "analysis_stats", "fields", "farm_portions",
     "geoserver_climate", "geoserver_feature"}

\* the scripts whose main() logs in before it looks at the command
LoginFirst == {"fields", "farm_portions", "geoserver_climate", "geoserver_feature"}

\* the commands each main() knows
Commands(script) ==
    CASE script = "auth" -> {"login", "refresh", "status"}
      [] script = "analysis_stats" -> {"get"}
      [] script = "fields" -> {"list", "list-farm", "get", "stats"}
      [] script = "farm_portions" -> {"list", "list-farm"}
      [] script = "geoserver_climate" -> {"capabilities", "map"}
      [] script = "geoserver_feature" -> {"info"}

\* sys.argv[1:]
Argvs == {<<>>, <<"help">>, <<"-h">>, <<"--help">>, <<"frobnicate">>, <<"list">>, <<"get">>}

\* what show_help() prints
Usage == "Usage:"

\* the process ended: its exit status, what it printed, the exception that
\* ended it if any, the session it leaves and the requests it issued
Exit(exit_status, stdout, o) ==
    [exit_status |-> exit_status, stdout |-> stdout, session |-> o]

\* the command branch of main(): a known command runs inside the try, whose
\* handlers catch every exception; anything else is the else branch
dispatch(script, argv, o) ==
    IF argv[1] \in Commands(script)
      THEN Exit(0, <<argv[1]>>, o)
      ELSE Exit(0, <<"Unknown command: " \o argv[1], Usage>>, o)

\* main() of a script, started with an empty session; returning from main()
\* ends the process with status 0, an uncaught exception with status 1
main(script, argv, net) ==
    LET fresh == Outcome(None, None, InitHeaders, "None", "", <<>>)
        o == login(None, None, InitHeaders, None, None, net)
    IN  IF argv = <<>> THEN Exit(0, <<Usage>>, fresh)
        ELSE IF argv[1] \in {"-h", "--help", "help"} THEN Exit(0, <<Usage>>, fresh)
        ELSE IF script \in LoginFirst
          THEN IF o.raised # "" THEN Exit(1, <<>>, o)
               ELSE IF o.ret = "False" THEN Exit(0, <<"Failed to authenticate">>, o)
               ELSE dispatch(script, argv, o)
        ELSE dispatch(script, argv, fresh)

\* -1: the process has not ended
CliInit ==
    /\ access_token = None
    /\ refresh_token = None
    /\ headers = InitHeaders
    /\ environ \in Environments
    /\ client = NoClient
    /\ op = "start"
    /\ args \in [script : Scripts, argv : Argvs]
    /\ ret = [exit_status |-> -1, stdout |-> <<>>]
    /\ raised = ""
    /\ sent = <<>>
    /\ invoked = <<>>
    /\ resp = NoResponse

Main ==
    /\ op = "start"
    /\ \E net \in IF main(args.script, args.argv, NetworkError).session.sent = <<>>
                    THEN {NetworkError} ELSE WrapperLoginOutcomes :
        \E e \in {main(args.script, args.argv, net)} :
            /\ op' = "main"
            /\ ret' = [exit_status |-> e.exit_status, stdout |-> e.stdout]
            /\ raised' = e.session.raised
            /\ access_token' = e.session.access_token
            /\ refresh_token' = e.session.refresh_token
            /\ headers' = e.session.headers
            /\ sent' = e.session.sent
            /\ resp' = IF e.session.sent = <<>> THEN NoResponse ELSE net
            /\ UNCHANGED <<environ, client, args, invoked>>

CliNext == Main

SpecCli == CliInit /\ [][CliNext]_vars

IsHelpRequest == args.argv # <<>> /\ args.argv[1] \in {"-h", "--help", "help"}

IsUnknownCommand ==
    /\ args.argv # <<>>
    /\ ~IsHelpRequest
    /\ args.argv[1] \notin Commands(args.script)

Printed(line) == \E i \in DOMAIN ret.stdout : ret.stdout[i] = line

\* C24: in every command-line script an unknown subcommand prints an error
\* and the usage text and the process ends with a non-zero exit status, while
\* help, -h or --help prints the usage and ends with exit status 0.
C24_ExitStatus ==
    op = "main" =>
        /\ IsHelpRequest => Printed(Usage) /\ ret.exit_status = 0
        /\ IsUnknownCommand =>
              /\ Printed("Unknown command: " \o args.argv[1])
              /\ Printed(Usage)
              /\ ret.exit_status # 0

\* the unknown command is reported and the process still ends with status 0
C24_Witness ==
    /\ op = "main"
    /\ args.script = "auth"
    /\ args.argv = <<"frobnicate">>
    /\ ret = [exit_status |-> 0, stdout |-> <<"Unknown command: frobnicate", Usage>>]


----------------------------------------------------------------------------
(* Properties of the session over sequences of calls *)

\* C25: in every state reached by login and refresh_tokens calls, a session
\* that holds an access token sends "Bearer " followed by exactly that
\* token, never an earlier one.
C25_HeaderMatchesToken ==
    Truthy(access_token) =>
        /\ HasAuthorization
        /\ get_headers["Authorization"] = "Bearer " \o access_token

\* a second login on a session that clients were already built on
C25_Witness ==
    /\ op = "login" /\ ret = "True"
    /\ client # NoClient
    /\ access_token = "BBB"
    /\ get_headers = SetItem(InitHeaders, "Authorization", "Bearer BBB")

\* C26: whenever is_authenticated() is false the header map carries no
\* Authorization entry.
C26_NoStaleAuthorization ==
    ~is_authenticated(access_token) => ~HasAuthorization

\* the refresh answer had no access token: the session lost its token and
\* keeps the Authorization entry of the token it held
C26_Witness ==
    /\ op = "refresh_tokens" /\ ret = "False"
    /\ ~is_authenticated(access_token)
    /\ HasAuthorization
    /\ get_headers["Authorization"] = "Bearer AAA"

\* C27: a login or refresh_tokens call that returns false leaves the access
\* token, the refresh token and the header map as they were before the call.
C27_FailureLeavesSession ==
    [][(op' \in {"login", "refresh_tokens"} /\ ret' = "False") => UNCHANGED session]_vars

\* a failed login on a session that clients were built on, which therefore
\* was authenticated, has removed the access token
C27_Witness ==
    /\ op = "login" /\ ret = "False"
    /\ client # NoClient
    /\ access_token = None

\* C28: after refresh_tokens returns true the session still holds a refresh
\* token, also when the answer has `access` and no `refresh`.
C28_RefreshKeepsRefreshToken ==
    (op = "refresh_tokens" /\ ret = "True") => Truthy(refresh_token)

\* the answer had `access` only: the refresh token is gone
C28_Witness ==
    /\ op = "refresh_tokens" /\ ret = "True"
    /\ DOMAIN resp.body.data = {"access"}
    /\ refresh_token = None


\* C29: every GET issued by a client that shares the session carries the
\* Authorization header of the access token the session holds when the
\* request is made.
C29_GetCarriesCurrentToken ==
    (op \in GetMethods /\ Requested) =>
        /\ "Authorization" \in DOMAIN sent[1].headers
        /\ sent[1].headers["Authorization"] = "Bearer " \o access_token

\* a GET of a client whose session has lost its access token still carries
\* the bearer credential of the token held before
C29_Witness ==
    /\ op = "get_fields" /\ Requested
    /\ access_token = None
    /\ "Authorization" \in DOMAIN sent[1].headers
    /\ sent[1].headers["Authorization"] = "Bearer AAA"

\* the constructor found the session not authenticated
FoundUnauthenticated ==
    invoked # <<>> /\ invoked[1] = Call("is_authenticated", "False")

\* C30: a client is constructed only on a session that holds an access
\* token; on a session that is not authenticated, or without auth_client,
\* the constructor raises ValueError without any HTTP request, except in
\* FarmPortions, where it calls login once and raises ValueError exactly
\* when that login does not return true.
C30_ConstructionNeedsAuthentication ==
    op \in ClientClasses =>
        /\ raised \in {"", "ValueError"}
        /\ raised = "" <=> ret = "client"
        /\ (ret = "client" /\ args.auth_client = "session") =>
              Truthy(access_token) /\ client.cls = op /\ client.shared
        /\ args.auth_client = None => FoundUnauthenticated
        /\ ~FoundUnauthenticated => sent = <<>> /\ ret = "client"
        /\ FoundUnauthenticated =>
              IF op = "FarmPortions"
                THEN /\ Len(invoked) = 2
                     /\ invoked[2].method = "login"
                     /\ Len(sent) <= 1
                     /\ raised = "ValueError" <=> invoked[2].ret # "True"
                ELSE /\ Len(invoked) = 1
                     /\ raised = "ValueError"
                     /\ sent = <<>>

\* FarmPortions built on a session that was not authenticated: its one
\* login succeeded
C30_Witness ==
    /\ op = "FarmPortions"
    /\ args.auth_client = "session"
    /\ invoked = <<Call("is_authenticated", "False"), Call("login", "True")>>
    /\ Len(sent) = 1
    /\ ret = "client"
    /\ Truthy(access_token)

====
